---------------------------- MODULE Spec2Model ----------------------------
(***************************************************************************)
(* A model of ocd's FileOperationManager (src/src/ocd/tools/               *)
(* file_operations.py): the filesystem it mutates, its operation history,  *)
(* and one action per public method.  File names are strings and the       *)
(* pathlib / shutil calls the manager makes are modelled by what they do.  *)
(***************************************************************************)
EXTENDS Integers, Sequences, FiniteSets, TLC

(***************************************************************************)
(* Strings and pathlib                                                     *)
(***************************************************************************)

\* str.startswith
StartsWith(s, p) == Len(s) >= Len(p) /\ SubSeq(s, 1, Len(p)) = p

\* str.rfind(ch) on 1-based positions; 0 when ch does not occur (Python: -1)
RECURSIVE RFindFrom(_, _, _)
RFindFrom(s, ch, i) ==
    IF i = 0 THEN 0
    ELSE IF SubSeq(s, i, i) = ch THEN i
    ELSE RFindFrom(s, ch, i - 1)

RFind(s, ch) == RFindFrom(s, ch, Len(s))

\* PurePath.suffix: name[i:] when the last dot is neither first nor last
Suffix(name) ==
    LET i == RFind(name, ".")
    IN  IF 1 < i /\ i < Len(name) THEN SubSeq(name, i, Len(name)) ELSE ""

\* PurePath.stem
Stem(name) ==
    LET i == RFind(name, ".")
    IN  IF 1 < i /\ i < Len(name) THEN SubSeq(name, 1, i - 1) ELSE name

\* The parts of a path string: split at "/", empty and "." parts dropped
RECURSIVE PartsFrom(_, _, _, _)
PartsFrom(s, i, cur, acc) ==
    LET flush == IF cur = "" \/ cur = "." THEN acc ELSE Append(acc, cur)
    IN  IF i > Len(s) THEN flush
        ELSE IF SubSeq(s, i, i) = "/" THEN PartsFrom(s, i + 1, "", flush)
        ELSE PartsFrom(s, i + 1, cur \o SubSeq(s, i, i), acc)

Parts(s) == PartsFrom(s, 1, "", <<>>)

\* A path is the sequence of its parts below the root "/"
Root == <<>>

\* Optional[Path] = None
NoPath == <<"<None>">>

\* PurePath.name
Name(path) == IF path = Root THEN "" ELSE path[Len(path)]

\* PurePath.parent (the root is its own parent)
Parent(path) == IF path = Root THEN Root ELSE SubSeq(path, 1, Len(path) - 1)

\* parent / name, for a relative name string
Join(parent, name) == parent \o Parts(name)

\* str(path)
RECURSIVE PathStr(_)
PathStr(path) ==
    IF path = Root THEN "/"
    ELSE IF Len(path) = 1 THEN "/" \o path[1]
    ELSE PathStr(Parent(path)) \o "/" \o Name(path)

\* Path.resolve() without symbolic links: ".." steps to the parent
RECURSIVE Resolve(_)
Resolve(path) ==
    IF path = Root THEN Root
    ELSE IF Name(path) = ".." THEN Parent(Resolve(Parent(path)))
    ELSE Append(Resolve(Parent(path)), Name(path))

IsPrefix(p, q) == Len(p) <= Len(q) /\ SubSeq(q, 1, Len(p)) = p

(***************************************************************************)
(* The filesystem: a function from the paths that exist to their nodes.    *)
(* A node is a file with a content or a directory; writable is the owner   *)
(* write bit (st_mode & 0o200) that _is_path_safe reads.  A file content   *)
(* is a positive number; 0 is what a copy interrupted by an error leaves   *)
(* at its destination.                                                     *)
(***************************************************************************)

File(c, w) == [kind |-> "file", content |-> c, writable |-> w]
Dir(w)     == [kind |-> "dir", content |-> 0, writable |-> w]

\* What a path that cannot be walked names: nothing, below nothing
Nowhere == <<"<nowhere>", "<nowhere>">>

\* "file", "dir", or "none" where nothing exists
KindAt(fs, p) == IF p \in DOMAIN fs THEN fs[p].kind ELSE "none"

\* One step of a path walk: a name looked up in a directory
RealIn(fs, dir, name) ==
    IF KindAt(fs, dir) # "dir" THEN Nowhere
    ELSE IF name = ".." THEN Parent(dir)
    ELSE Append(dir, name)

\* The place a path names to the operating system: each part is looked up
\* in the directory before it, ".." steps out of a directory that exists
RECURSIVE Real(_, _)
Real(fs, path) ==
    IF path = Root THEN Root
    ELSE RealIn(fs, Real(fs, Parent(path)), Name(path))

\* Path.exists(), Path.is_dir(), Path.is_file()
Exists(fs, path) == Real(fs, path) \in DOMAIN fs
IsDir(fs, path)  == KindAt(fs, Real(fs, path)) = "dir"
IsFile(fs, path) == KindAt(fs, Real(fs, path)) = "file"

\* The nodes at and below a place
Under(fs, p) == {q \in DOMAIN fs : IsPrefix(p, q)}

\* The filesystem without the places of S
Without(fs, S) == [q \in DOMAIN fs \ S |-> fs[q]]

\* Outcome of a filesystem call: ok = FALSE when it raised
Ok(fs)     == [ok |-> TRUE, fs |-> fs]
Raised(fs) == [ok |-> FALSE, fs |-> fs]

\* The missing ancestors of a place, itself included
RECURSIVE Missing(_, _)
Missing(fs, p) ==
    IF p \in DOMAIN fs THEN {} ELSE Missing(fs, Parent(p)) \cup {p}

\* The nearest ancestor of a place that exists, itself included
RECURSIVE Nearest(_, _)
Nearest(fs, p) ==
    IF p \in DOMAIN fs THEN p ELSE Nearest(fs, Parent(p))

MkdirAt(fs, p, parents, exist_ok) ==
    IF p \in DOMAIN fs THEN
        IF exist_ok /\ fs[p].kind = "dir" THEN Ok(fs) ELSE Raised(fs)
    ELSE IF fs[Nearest(fs, p)].kind # "dir" THEN Raised(fs)
    ELSE IF ~parents /\ Parent(p) \notin DOMAIN fs THEN Raised(fs)
    ELSE Ok([q \in Missing(fs, p) |-> Dir(TRUE)] @@ fs)

\* Path.mkdir(parents, exist_ok)
Mkdir(fs, path, parents, exist_ok) == MkdirAt(fs, Resolve(path), parents, exist_ok)

RmdirAt(fs, p) ==
    IF KindAt(fs, p) = "dir" /\ Under(fs, p) = {p}
    THEN Ok(Without(fs, {p}))
    ELSE Raised(fs)

\* Path.rmdir(): OSError on a directory that is not empty
Rmdir(fs, path) == RmdirAt(fs, Real(fs, path))

UnlinkAt(fs, p) ==
    IF KindAt(fs, p) = "file" THEN Ok(Without(fs, {p})) ELSE Raised(fs)

\* Path.unlink()
Unlink(fs, path) == UnlinkAt(fs, Real(fs, path))

\* shutil.rmtree() of a directory.  It can raise before it removed anything
\* (fails = "first") or at the final rmdir, when the entries are gone and
\* the emptied directory stays (fails = "last")
RmtreeAt(fs, p, fails) ==
    IF KindAt(fs, p) # "dir" \/ fails = "first" THEN Raised(fs)
    ELSE IF fails = "last" THEN Raised(Without(fs, Under(fs, p) \ {p}))
    ELSE Ok(Without(fs, Under(fs, p)))

Rmtree(fs, path, fails) == RmtreeAt(fs, Real(fs, path), fails)

\* The nodes of the subtree at s, placed at d
Placed(fs, s, d) ==
    [q \in {d \o SubSeq(o, Len(s) + 1, Len(o)) : o \in Under(fs, s)} |->
        fs[s \o SubSeq(q, Len(d) + 1, Len(q))]]

\* shutil.copytree(): os.makedirs(dst) makes the destination, which must
\* not exist, and its missing parents; an error part-way leaves the
\* destination directory without its entries
CopytreeAt(fs, s, d, fails) ==
    IF KindAt(fs, s) # "dir" \/ d \in DOMAIN fs \/ d = Nowhere
        \/ fs[Nearest(fs, d)].kind # "dir"
    THEN Raised(fs)
    ELSE IF fails THEN Raised([q \in Missing(fs, d) |-> Dir(TRUE)] @@ fs)
    ELSE Ok(Placed(fs, s, d) @@ [q \in Missing(fs, d) |-> Dir(TRUE)] @@ fs)

Copytree(fs, src, dst, fails) == CopytreeAt(fs, Real(fs, src), Resolve(dst), fails)

\* shutil.copyfile(): the source is opened, then the destination is opened
\* for writing, which empties it; a failed write leaves a partial file
Copy2Onto(fs, s, d, fails) ==
    IF KindAt(fs, s) # "file" \/ s = d \/ KindAt(fs, d) = "dir"
        \/ KindAt(fs, Parent(d)) # "dir"
    THEN Raised(fs)
    ELSE IF KindAt(fs, d) = "file" /\ ~fs[d].writable THEN Raised(fs)
    ELSE IF fails THEN Raised((d :> File(0, TRUE)) @@ fs)
    ELSE Ok((d :> fs[s]) @@ fs)

Copy2At(fs, s, d, fails) ==
    Copy2Onto(fs, s, IF KindAt(fs, d) = "dir" THEN Append(d, Name(s)) ELSE d, fails)

\* shutil.copy2() / shutil.copy(): into the directory when dst is one,
\* over the file when dst is one
Copy2(fs, src, dst, fails) == Copy2At(fs, Real(fs, src), Real(fs, dst), fails)

\* The faults at which os.rename raises (another volume, a permission) and
\* shutil.move falls back to a copy and the removal of the source
Fallbacks == {"copy", "remove", "rmdir"}

\* How the rmtree of a fault ends
RmtreeFails(fault) ==
    IF fault = "remove" THEN "first" ELSE IF fault = "rmdir" THEN "last" ELSE "no"

MoveTreeCopied(copied, s, fault) ==
    IF ~copied.ok THEN copied ELSE RmtreeAt(copied.fs, s, RmtreeFails(fault))

MoveFileCopied(copied, s, fault) ==
    IF ~copied.ok THEN copied
    ELSE IF fault = "remove" THEN Raised(copied.fs)
    ELSE UnlinkAt(copied.fs, s)

\* os.rename(src, real_dst) and, when it raises, the copy and removal
MoveTo(fs, s, real, fault) ==
    IF s = real THEN Ok(fs)
    ELSE IF KindAt(fs, s) = "dir" THEN
        IF IsPrefix(s, real) THEN Raised(fs)
        ELSE IF /\ fault \notin Fallbacks
                /\ real \notin DOMAIN fs
                /\ KindAt(fs, Parent(real)) = "dir"
        THEN Ok(Placed(fs, s, real) @@ Without(fs, Under(fs, s)))
        ELSE MoveTreeCopied(CopytreeAt(fs, s, real, fault = "copy"), s, fault)
    ELSE IF /\ fault \notin Fallbacks
            /\ KindAt(fs, real) # "dir"
            /\ KindAt(fs, Parent(real)) = "dir"
    THEN Ok((real :> fs[s]) @@ Without(fs, {s}))
    ELSE MoveFileCopied(Copy2At(fs, s, real, fault = "copy"), s, fault)

MoveAt(fs, s, d, fault) ==
    IF s \notin DOMAIN fs THEN Raised(fs)
    ELSE IF KindAt(fs, d) = "dir" /\ s # d THEN
        IF Append(d, Name(s)) \in DOMAIN fs THEN Raised(fs)
        ELSE MoveTo(fs, s, Append(d, Name(s)), fault)
    ELSE MoveTo(fs, s, d, fault)

\* shutil.move(): into dst when dst is a directory
Move(fs, src, dst, fault) == MoveAt(fs, Real(fs, src), Real(fs, dst), fault)

(***************************************************************************)
(* FileOperationManager                                                    *)
(***************************************************************************)

VARIABLES
    fs,                 \* the filesystem
    now,                \* the clock, in seconds
    safety_level,       \* self.safety_level
    backup_enabled,     \* self.backup_enabled
    operation_history,  \* self.operation_history
    last,               \* the last call made, with its arguments and outcome
    scenario,           \* the tree the run started from
    ncalls,             \* the number of calls of the mutating methods so far
    nrollbacks,         \* the number of calls of rollback_operations so far
    batch,              \* the intents last previewed, and their execution so far
    resolving           \* the call of _resolve_naming_conflict in progress

vars == <<fs, now, safety_level, backup_enabled, operation_history, last, scenario,
          ncalls, nrollbacks, batch, resolving>>

SafetyLevels == {"minimal", "balanced", "maximum"}

\* class SafetyLevel(str, Enum) of core/types.py: its members and values
SafetyLevelMembers ==
    [PERMISSIVE |-> "permissive", BALANCED |-> "balanced", STRICT |-> "strict",
     PARANOID |-> "paranoid"]

\* SafetyLevel.<name>: the member's value, or AttributeError
Member(name) ==
    IF name \in DOMAIN SafetyLevelMembers
    THEN [raised |-> "", value |-> SafetyLevelMembers[name]]
    ELSE [raised |-> "AttributeError", value |-> ""]

\* __init__ with the SafetyLevel of core/types.py: _configure_safety_settings
\* first compares the level with SafetyLevel.MAXIMUM
Construction(level) ==
    IF Member("MAXIMUM").raised # ""
    THEN [raised |-> Member("MAXIMUM").raised, safety_level |-> "",
          operation_history |-> <<>>]
    ELSE [raised |-> "", safety_level |-> level, operation_history |-> <<>>]

\* _configure_safety_settings (the sizes are in MiB)
SafetySettings(level) ==
    IF level = "maximum" THEN
        [require_backup |-> TRUE, validate_permissions |-> TRUE,
         check_system_files |-> TRUE, prevent_overwrite |-> TRUE,
         max_file_size |-> 100,
         forbidden_paths |-> {"/System", "/usr", "/bin", "/sbin", "/etc",
                              "C:\\Windows", "C:\\Program Files",
                              "C:\\Program Files (x86)"}]
    ELSE IF level = "balanced" THEN
        [require_backup |-> TRUE, validate_permissions |-> TRUE,
         check_system_files |-> TRUE, prevent_overwrite |-> FALSE,
         max_file_size |-> 1024,
         forbidden_paths |-> {"/System", "/usr/bin", "/usr/sbin", "/etc",
                              "C:\\Windows\\System32", "C:\\Windows\\SysWOW64"}]
    ELSE
        [require_backup |-> FALSE, validate_permissions |-> TRUE,
         check_system_files |-> FALSE, prevent_overwrite |-> FALSE,
         max_file_size |-> 10240,
         forbidden_paths |-> {}]

\* _is_path_safe
IsPathSafe(level, f, path) ==
    LET path_str == PathStr(Resolve(path))
    IN  /\ \A forbidden \in SafetySettings(level).forbidden_paths :
              ~StartsWith(path_str, forbidden)
        /\ SafetySettings(level).validate_permissions /\ Exists(f, path)
              => f[Real(f, path)].writable

\* rollback_info, with the keys an operation does not set at their
\* dict.get() defaults
NoInfo == [backup_path |-> NoPath, original_existed |-> FALSE,
           was_directory |-> FALSE, created |-> FALSE, created_copy |-> FALSE]

\* FileOperation(operation_type, source_path, destination_path): the
\* timestamp is datetime.now() when the record is made
FileOperation(type, source, destination) ==
    [operation_type |-> type, source_path |-> source,
     destination_path |-> destination, timestamp |-> now, executed |-> FALSE,
     rollback_info |-> NoInfo]

\* _validate_delete_operation without the rule of the maximum level
ValidateDeleteAtAnyLevel(level, f, operation) ==
    operation.source_path # NoPath /\ IsPathSafe(level, f, operation.source_path)

\* _validate_delete_operation
ValidateDeleteOperation(level, f, operation) ==
    IF level = "maximum" THEN FALSE
    ELSE operation.source_path # NoPath /\ IsPathSafe(level, f, operation.source_path)

\* _validate_move_copy_operation
ValidateMoveCopyOperation(level, f, operation) ==
    /\ operation.source_path # NoPath
    /\ operation.destination_path # NoPath
    /\ IsPathSafe(level, f, operation.source_path)
    /\ IsPathSafe(level, f, operation.destination_path)

\* _validate_rename_operation
ValidateRenameOperation(level, f, operation) ==
    operation.source_path # NoPath /\ IsPathSafe(level, f, operation.source_path)

\* validate_operation, for a FileOperation; an exception inside it is FALSE
ValidateOperation(level, f, operation) ==
    /\ operation.source_path # NoPath => IsPathSafe(level, f, operation.source_path)
    /\ operation.destination_path # NoPath
          => IsPathSafe(level, f, operation.destination_path)
    /\ CASE operation.operation_type = "delete" ->
                ValidateDeleteOperation(level, f, operation)
         [] operation.operation_type \in {"move", "copy"} ->
                ValidateMoveCopyOperation(level, f, operation)
         [] operation.operation_type = "rename" ->
                ValidateRenameOperation(level, f, operation)
         [] OTHER -> TRUE

\* OperationResult(success = True, ...); warnings keeps its default, which no
\* method of the manager sets
Success(operation, message, destination, conflicts_resolved) ==
    [success |-> TRUE, raised |-> "", cause |-> "", operation |-> operation,
     message |-> message, destination |-> destination,
     conflicts_resolved |-> conflicts_resolved, warnings |-> <<>>]

\* raise OCDError(...) from a method's except clause: cause is the class of
\* the exception it caught and wrapped
Failure(operation, cause) ==
    [success |-> FALSE, raised |-> "OCDError", cause |-> cause, operation |-> operation,
     message |-> "failed", destination |-> NoPath, conflicts_resolved |-> <<>>,
     warnings |-> <<>>]

\* What a method leaves behind: the filesystem, the history, its result
Outcome(f, h, res) == [fs |-> f, history |-> h, res |-> res]

\* The loop bound of _resolve_naming_conflict
MaxCounter == 1000

\* f"{base_name} ({counter}){extension}" in the parent
Candidate(path, counter) ==
    Append(Parent(path),
           Stem(Name(path)) \o " (" \o ToString(counter) \o ")" \o Suffix(Name(path)))

\* int(time.time()) when the clock reads t
UnixTime(t) == 1767225600 + t

\* f"{base_name}_{timestamp}{extension}" in the parent
TimestampName(path, t) ==
    Append(Parent(path),
           Stem(Name(path)) \o "_" \o ToString(UnixTime(t)) \o Suffix(Name(path)))

\* The first counter of lo..hi, in increasing order, whose candidate does
\* not exist; 0 when there is none.  (The probes of the while loop, split
\* in halves so that a thousand probes do not nest a thousand deep.)
RECURSIVE FirstFree(_, _, _, _)
RECURSIVE FirstFreeAfter(_, _, _, _, _)
FirstFree(f, path, lo, hi) ==
    IF lo = hi THEN (IF Exists(f, Candidate(path, lo)) THEN 0 ELSE lo)
    ELSE FirstFreeAfter(FirstFree(f, path, lo, (lo + hi) \div 2), f, path,
                        (lo + hi) \div 2 + 1, hi)

FirstFreeAfter(left, f, path, lo, hi) ==
    IF left # 0 THEN left ELSE FirstFree(f, path, lo, hi)

NamedBy(counter, path, t) ==
    IF counter # 0 THEN Candidate(path, counter) ELSE TimestampName(path, t)

\* _resolve_naming_conflict with the counter starting at 2
ResolveFromTwo(f, path, t) ==
    NamedBy(FirstFree(f, path, 2, MaxCounter), path, t)

\* _resolve_naming_conflict
ResolveNamingConflict(f, path, t) ==
    NamedBy(FirstFree(f, path, 1, MaxCounter), path, t)

\* No call of _resolve_naming_conflict is in progress
NotResolving ==
    [path |-> NoPath, counter |-> 0, probes |-> 0, new_path |-> NoPath,
     returned |-> FALSE]

\* _resolve_naming_conflict with the counter starting at 2
StartedAtTwo(path) ==
    [path |-> path, counter |-> 2, probes |-> 0, new_path |-> NoPath,
     returned |-> FALSE]

\* _resolve_naming_conflict before its loop: counter = 1
Started(path) ==
    [path |-> path, counter |-> 1, probes |-> 0, new_path |-> NoPath,
     returned |-> FALSE]

\* One pass of the while loop of _resolve_naming_conflict: probes counts
\* the calls of new_path.exists()
Probed(r, f, t) ==
    IF ~Exists(f, Candidate(r.path, r.counter))
    THEN [r EXCEPT !.probes = @ + 1, !.new_path = Candidate(r.path, r.counter),
                   !.returned = TRUE]
    ELSE IF r.counter + 1 > MaxCounter
    THEN [r EXCEPT !.probes = @ + 1, !.counter = @ + 1,
                   !.new_path = TimestampName(r.path, t), !.returned = TRUE]
    ELSE [r EXCEPT !.probes = @ + 1, !.counter = @ + 1,
                   !.new_path = Candidate(r.path, r.counter)]

\* "%02d"
Two(n) == (IF n < 10 THEN "0" ELSE "") \o ToString(n)

\* datetime.now().strftime("%Y%m%d_%H%M%S"), the clock at 0 being
\* 2026-01-01 00:00:00
Stamp(t) ==
    "202601" \o Two(1 + t \div 86400) \o "_" \o Two((t % 86400) \div 3600)
             \o Two((t % 3600) \div 60) \o Two(t % 60)

BackupDir(path) == Append(Parent(path), ".ocd_backups")

BackupPath(path, t) == Append(BackupDir(path), Name(path) \o "_" \o Stamp(t))

\* What _create_backup leaves: ok = FALSE when it raised
BackedUp(copied, backup_path) ==
    [ok |-> copied.ok, fs |-> copied.fs, backup_path |-> backup_path]

NoBackup(f) == [ok |-> TRUE, fs |-> f, backup_path |-> NoPath]

BackupMade(made, path, t, fails) ==
    IF ~made.ok THEN [ok |-> FALSE, fs |-> made.fs, backup_path |-> NoPath]
    ELSE IF IsDir(made.fs, path)
    THEN BackedUp(Copytree(made.fs, path, BackupPath(path, t), fails), BackupPath(path, t))
    ELSE BackedUp(Copy2(made.fs, path, BackupPath(path, t), fails), BackupPath(path, t))

\* _create_backup
CreateBackup(f, path, t, fails) ==
    BackupMade(Mkdir(f, BackupDir(path), FALSE, TRUE), path, t, fails)

CreateMade(made, f, h, path) ==
    IF ~made.ok
    THEN Outcome(f, h, Failure(FileOperation("create_dir", NoPath, path), "OSError"))
    ELSE Outcome(made.fs,
                 Append(h, [FileOperation("create_dir", NoPath, path) EXCEPT
                                !.executed = TRUE, !.rollback_info.created = TRUE]),
                 Success([FileOperation("create_dir", NoPath, path) EXCEPT
                                !.executed = TRUE, !.rollback_info.created = TRUE],
                         "Directory created", path, <<>>))

\* create_directory without the check for a path that already exists
CreateDirectoryAgain(f, h, path, parents, exist_ok, fault) ==
    IF ~ValidateOperation(safety_level, f, FileOperation("create_dir", NoPath, path))
    THEN Outcome(f, h, Failure(FileOperation("create_dir", NoPath, path),
                               "OCDValidationError"))
    ELSE IF fault = "mkdir"
    THEN Outcome(f, h, Failure(FileOperation("create_dir", NoPath, path), "OSError"))
    ELSE CreateMade(Mkdir(f, path, parents, exist_ok), f, h, path)

\* create_directory
CreateDirectory(f, h, path, parents, exist_ok, fault) ==
    IF ~ValidateOperation(safety_level, f, FileOperation("create_dir", NoPath, path))
    THEN Outcome(f, h, Failure(FileOperation("create_dir", NoPath, path),
                               "OCDValidationError"))
    ELSE IF Exists(f, path) THEN
        IF exist_ok /\ IsDir(f, path)
        THEN Outcome(f, h, Success(FileOperation("create_dir", NoPath, path),
                                   "Directory already exists", path, <<>>))
        ELSE Outcome(f, h, Failure(FileOperation("create_dir", NoPath, path), "OCDError"))
    ELSE IF fault = "mkdir"
    THEN Outcome(f, h, Failure(FileOperation("create_dir", NoPath, path), "OSError"))
    ELSE CreateMade(Mkdir(f, path, parents, exist_ok), f, h, path)

\* The record move_file appends
Moved(f, source, destination, final_destination, backup_path) ==
    [FileOperation("move", source, final_destination) EXCEPT
        !.executed = TRUE,
        !.rollback_info.backup_path = backup_path,
        !.rollback_info.original_existed = Exists(f, destination)]

MoveRecorded(done, f, h, conflict) ==
    Outcome(f, Append(h, done),
            Success(done, "File moved", done.destination_path,
                    IF conflict THEN <<Name(done.destination_path)>> ELSE <<>>))

\* move_file appending its record although shutil.move raised
MoveRecordedAnyway(moved, h, source, destination, final_destination, conflict, backup_path) ==
    IF ~moved.ok
    THEN Outcome(moved.fs, Append(h, FileOperation("move", source, final_destination)),
                 Failure(FileOperation("move", source, destination), "OSError"))
    ELSE MoveRecorded(Moved(moved.fs, source, destination, final_destination, backup_path),
                      moved.fs, h, conflict)

\* move_file, after shutil.move
MovePerformed(moved, h, source, destination, final_destination, conflict, backup_path) ==
    IF ~moved.ok
    THEN Outcome(moved.fs, h, Failure(FileOperation("move", source, destination), "OSError"))
    ELSE MoveRecorded(Moved(moved.fs, source, destination, final_destination, backup_path),
                      moved.fs, h, conflict)

\* move_file, after the backup
MoveBackedUp(backup, h, source, destination, final_destination, conflict, fault) ==
    IF ~backup.ok
    THEN Outcome(backup.fs, h, Failure(FileOperation("move", source, destination), "OSError"))
    ELSE MovePerformed(Move(backup.fs, source, final_destination, fault), h, source,
                       destination, final_destination, conflict, backup.backup_path)

\* move_file, after final_destination.parent.mkdir
MoveMade(made, h, t, source, destination, final_destination, conflict, fault) ==
    IF ~made.ok
    THEN Outcome(made.fs, h, Failure(FileOperation("move", source, destination), "OSError"))
    ELSE IF backup_enabled /\ Exists(made.fs, final_destination)
    THEN MoveBackedUp(CreateBackup(made.fs, final_destination, t, fault = "backup"), h,
                      source, destination, final_destination, conflict, fault)
    ELSE MoveBackedUp(NoBackup(made.fs), h, source, destination, final_destination,
                      conflict, fault)

\* move_file, after the conflict handling
MoveResolved(f, h, t, source, destination, final_destination, conflict, fault) ==
    IF fault = "mkdir"
    THEN Outcome(f, h, Failure(FileOperation("move", source, destination), "OSError"))
    ELSE MoveMade(Mkdir(f, Parent(final_destination), TRUE, TRUE), h, t, source,
                  destination, final_destination, conflict, fault)

\* move_file
MoveFile(f, h, t, source, destination, resolve_conflicts, fault) ==
    IF ~ValidateOperation(safety_level, f, FileOperation("move", source, destination))
    THEN Outcome(f, h, Failure(FileOperation("move", source, destination),
                               "OCDValidationError"))
    ELSE IF ~Exists(f, source)
    THEN Outcome(f, h, Failure(FileOperation("move", source, destination), "OCDError"))
    ELSE IF Exists(f, destination) /\ resolve_conflicts
    THEN MoveResolved(f, h, t, source, destination,
                      ResolveNamingConflict(f, destination, t), TRUE, fault)
    ELSE MoveResolved(f, h, t, source, destination, destination, FALSE, fault)

\* rename_file, after move_file
Renamed(moved, current_path, new_path) ==
    IF moved.res.success
    THEN Outcome(moved.fs, moved.history,
                 [moved.res EXCEPT
                    !.operation = [FileOperation("rename", current_path, new_path)
                                   EXCEPT !.executed = TRUE],
                    !.message = "File renamed"])
    ELSE Outcome(moved.fs, moved.history,
                 Failure(FileOperation("rename", current_path, new_path), "OCDError"))

\* rename_file: Path(new_name).name, then current_path.parent / new_name
RenameFile(f, h, t, current_path, name, fault) ==
    Renamed(MoveFile(f, h, t, current_path,
                     Join(Parent(current_path), Name(Parts(name))), TRUE, fault),
            current_path, Join(Parent(current_path), Name(Parts(name))))

CopyRecorded(done, f, h) ==
    Outcome(f, Append(h, done), Success(done, "File copied", done.destination_path, <<>>))

\* copy_file, after shutil.copy2 / shutil.copy
CopyPerformed(copied, h, source, destination, final_destination) ==
    IF ~copied.ok
    THEN Outcome(copied.fs, h, Failure(FileOperation("copy", source, destination), "OSError"))
    ELSE CopyRecorded([FileOperation("copy", source, final_destination) EXCEPT
                            !.executed = TRUE, !.rollback_info.created_copy = TRUE],
                      copied.fs, h)

\* copy_file, after the conflict handling; shutil.copy2 and shutil.copy
\* write the same content
CopyResolved(f, h, source, destination, final_destination, preserve_metadata, fault) ==
    IF preserve_metadata
    THEN CopyPerformed(Copy2(f, source, final_destination, fault = "copy"), h, source,
                       destination, final_destination)
    ELSE CopyPerformed(Copy2(f, source, final_destination, fault = "copy"), h, source,
                       destination, final_destination)

\* copy_file, after destination.parent.mkdir
CopyMade(made, h, t, source, destination, preserve_metadata, fault) ==
    IF ~made.ok
    THEN Outcome(made.fs, h, Failure(FileOperation("copy", source, destination), "OSError"))
    ELSE IF Exists(made.fs, destination)
    THEN CopyResolved(made.fs, h, source, destination,
                      ResolveNamingConflict(made.fs, destination, t), preserve_metadata,
                      fault)
    ELSE CopyResolved(made.fs, h, source, destination, destination, preserve_metadata,
                      fault)

\* copy_file
CopyFile(f, h, t, source, destination, preserve_metadata, fault) ==
    IF ~ValidateOperation(safety_level, f, FileOperation("copy", source, destination))
    THEN Outcome(f, h, Failure(FileOperation("copy", source, destination),
                               "OCDValidationError"))
    ELSE IF ~Exists(f, source)
    THEN Outcome(f, h, Failure(FileOperation("copy", source, destination), "OCDError"))
    ELSE IF fault = "mkdir"
    THEN Outcome(f, h, Failure(FileOperation("copy", source, destination), "OSError"))
    ELSE CopyMade(Mkdir(f, Parent(destination), TRUE, TRUE), h, t, source, destination,
                  preserve_metadata, fault)

DeleteRecorded(done, f, h) ==
    Outcome(f, Append(h, done), Success(done, "File deleted", NoPath, <<>>))

\* delete_file, after the deletion; was_directory is read once the path is gone
DeleteRemoved(removed, h, path, backup_path) ==
    IF ~removed.ok
    THEN Outcome(removed.fs, h, Failure(FileOperation("delete", path, NoPath), "OSError"))
    ELSE DeleteRecorded([FileOperation("delete", path, NoPath) EXCEPT
                            !.executed = TRUE,
                            !.rollback_info.backup_path = backup_path,
                            !.rollback_info.was_directory = IsDir(removed.fs, path)],
                        removed.fs, h)

\* delete_file, after the backup
DeleteBackedUp(backup, h, path, fault) ==
    IF ~backup.ok
    THEN Outcome(backup.fs, h, Failure(FileOperation("delete", path, NoPath), "OSError"))
    ELSE IF IsDir(backup.fs, path)
    THEN DeleteRemoved(Rmtree(backup.fs, path, RmtreeFails(fault)), h, path,
                       backup.backup_path)
    ELSE IF fault = "remove"
    THEN DeleteRemoved(Raised(backup.fs), h, path, backup.backup_path)
    ELSE DeleteRemoved(Unlink(backup.fs, path), h, path, backup.backup_path)

\* delete_file raising for a path that does not exist
DeleteFileThatExists(f, h, t, path, force, fault) ==
    IF ~ValidateOperation(safety_level, f, FileOperation("delete", path, NoPath))
    THEN Outcome(f, h, Failure(FileOperation("delete", path, NoPath),
                               "OCDValidationError"))
    ELSE IF ~Exists(f, path)
    THEN Outcome(f, h, Failure(FileOperation("delete", path, NoPath), "OCDError"))
    ELSE IF backup_enabled
    THEN DeleteBackedUp(CreateBackup(f, path, t, fault = "backup"), h, path, fault)
    ELSE DeleteBackedUp(NoBackup(f), h, path, fault)

\* The validation of delete_file made once the deletion is done
DeleteValidated(out, f, h, path) ==
    IF ~ValidateOperation(safety_level, f, FileOperation("delete", path, NoPath))
    THEN Outcome(out.fs, h, Failure(FileOperation("delete", path, NoPath),
                                    "OCDValidationError"))
    ELSE out

\* delete_file validating after it has deleted
DeleteFileThenValidate(f, h, t, path, force, fault) ==
    IF ~Exists(f, path)
    THEN DeleteValidated(Outcome(f, h, Success(FileOperation("delete", path, NoPath),
                                               "File does not exist", NoPath, <<>>)),
                         f, h, path)
    ELSE IF backup_enabled
    THEN DeleteValidated(DeleteBackedUp(CreateBackup(f, path, t, fault = "backup"), h,
                                        path, fault), f, h, path)
    ELSE DeleteValidated(DeleteBackedUp(NoBackup(f), h, path, fault), f, h, path)

\* delete_file
DeleteFile(f, h, t, path, force, fault) ==
    IF ~ValidateOperation(safety_level, f, FileOperation("delete", path, NoPath))
    THEN Outcome(f, h, Failure(FileOperation("delete", path, NoPath),
                               "OCDValidationError"))
    ELSE IF ~Exists(f, path)
    THEN Outcome(f, h, Success(FileOperation("delete", path, NoPath),
                               "File does not exist", NoPath, <<>>))
    ELSE IF backup_enabled
    THEN DeleteBackedUp(CreateBackup(f, path, t, fault = "backup"), h, path, fault)
    ELSE DeleteBackedUp(NoBackup(f), h, path, fault)

\* OperationResult(success, operation, message) as rollback returns it
RollbackResult(success, operation, message) ==
    [success |-> success, raised |-> "", cause |-> "", operation |-> operation,
     message |-> message, destination |-> NoPath, conflicts_resolved |-> <<>>,
     warnings |-> <<>>]

\* A rollback that takes the record it rolled back out of the history
RolledBackAndForgotten(f, h, operation) ==
    Outcome(f, SelectSeq(h, LAMBDA record : record # operation),
            RollbackResult(TRUE, operation, "Operation rolled back successfully"))

\* The return at the end of _rollback_single_operation
RolledBack(f, h, operation) ==
    Outcome(f, h, RollbackResult(TRUE, operation, "Operation rolled back successfully"))

\* A move_file or delete_file awaited by _rollback_single_operation: when
\* it raises, the except clause raises OCDError
Undone(out, operation) ==
    IF out.res.success THEN RolledBack(out.fs, out.history, operation)
    ELSE Outcome(out.fs, out.history, Failure(operation, "OCDError"))

\* The shutil call that restores a backup
Restored(copied, h, operation) ==
    IF copied.ok THEN RolledBack(copied.fs, h, operation)
    ELSE Outcome(copied.fs, h, Failure(operation, "OSError"))

\* _rollback_single_operation: res.raised is "OCDError" when it raises
RollbackSingleOperation(f, h, t, operation) ==
    IF ~operation.executed
    THEN Outcome(f, h, RollbackResult(TRUE, operation,
                                      "Operation was not executed, nothing to rollback"))
    ELSE IF operation.operation_type = "move" THEN
        IF operation.destination_path # NoPath /\ Exists(f, operation.destination_path)
        THEN Undone(MoveFile(f, h, t, operation.destination_path, operation.source_path,
                             TRUE, "none"), operation)
        ELSE RolledBack(f, h, operation)
    ELSE IF operation.operation_type = "copy" THEN
        IF operation.destination_path # NoPath /\ Exists(f, operation.destination_path)
        THEN Undone(DeleteFile(f, h, t, operation.destination_path, TRUE, "none"),
                    operation)
        ELSE RolledBack(f, h, operation)
    ELSE IF operation.operation_type = "create_dir" THEN
        IF operation.destination_path # NoPath /\ Exists(f, operation.destination_path)
        THEN RolledBack(Rmdir(f, operation.destination_path).fs, h, operation)
        ELSE RolledBack(f, h, operation)
    ELSE IF operation.operation_type = "delete" THEN
        IF /\ operation.rollback_info.backup_path # NoPath
           /\ Exists(f, operation.rollback_info.backup_path)
        THEN IF operation.rollback_info.was_directory
             THEN Restored(Copytree(f, operation.rollback_info.backup_path,
                                    operation.source_path, FALSE), h, operation)
             ELSE Restored(Copy2(f, operation.rollback_info.backup_path,
                                 operation.source_path, FALSE), h, operation)
        ELSE RolledBack(f, h, operation)
    ELSE RolledBack(f, h, operation)

\* The records in the order given
NotReversed(operations) == operations

\* reversed(operations)
Reversed(operations) ==
    [i \in 1..Len(operations) |-> operations[Len(operations) + 1 - i]]

\* The except clause of rollback_operations
RollbackFailed(operation) == RollbackResult(FALSE, operation, "Rollback failed")

\* The result rollback_operations appends for a record
Reported(one, operation) ==
    IF one.res.raised = "" THEN one.res ELSE RollbackFailed(operation)

\* The loop of rollback_operations over the records still to process
RECURSIVE RollbackLoop(_, _, _, _, _)
RECURSIVE RollbackNext(_, _, _, _)
RollbackLoop(f, h, t, todo, results) ==
    IF todo = <<>> THEN [fs |-> f, history |-> h, results |-> results]
    ELSE RollbackNext(RollbackSingleOperation(f, h, t, Head(todo)), t, todo, results)

\* The loop after a record: its result is appended and the loop goes on
RollbackNext(one, t, todo, results) ==
    RollbackLoop(one.fs, one.history, t, Tail(todo),
                 Append(results, Reported(one, Head(todo))))

\* rollback_operations
RollbackOperations(f, h, t, operations) ==
    RollbackLoop(f, h, t, Reversed(operations), <<>>)

\* operations_by_type[op_type] = operations_by_type.get(op_type, 0) + 1
Counted(by_type, type) ==
    IF type \in DOMAIN by_type THEN [by_type EXCEPT ![type] = @ + 1]
    ELSE (type :> 1) @@ by_type

\* The dict preview_operations starts from
NoPreview(operations) ==
    [total_operations |-> Len(operations), operations_by_type |-> <<>>,
     potential_conflicts |-> <<>>, safety_warnings |-> <<>>, estimated_changes |-> <<>>]

\* The body of the loop of preview_operations, for one operation
Previewed(level, f, op, preview) ==
    [preview EXCEPT
        !.operations_by_type = Counted(@, op.operation_type),
        !.potential_conflicts =
            IF op.destination_path # NoPath /\ Exists(f, op.destination_path)
            THEN Append(@, op.destination_path) ELSE @,
        !.safety_warnings =
            IF ~ValidateOperation(level, f, op)
            THEN Append(@, <<op.operation_type, op.source_path>>) ELSE @]

\* The loop of preview_operations: it reads the filesystem and hands it on
RECURSIVE PreviewLoop(_, _, _, _, _)
PreviewLoop(level, f, h, todo, preview) ==
    IF todo = <<>> THEN [fs |-> f, history |-> h, preview |-> preview]
    ELSE PreviewLoop(level, f, h, Tail(todo), Previewed(level, f, Head(todo), preview))

\* A preview that makes the parent directory of the first destination, as
\* executing the operation would
PreviewMakingParents(level, f, h, operations) ==
    IF operations # <<>> /\ operations[1].destination_path # NoPath
    THEN PreviewLoop(level, Mkdir(f, Parent(operations[1].destination_path), TRUE, TRUE).fs,
                     h, operations, NoPreview(operations))
    ELSE PreviewLoop(level, f, h, operations, NoPreview(operations))

\* preview_operations, for a list of FileOperation
PreviewOperations(level, f, h, operations) ==
    PreviewLoop(level, f, h, operations, NoPreview(operations))

(***************************************************************************)
(* The state machine: a manager, constructed with a safety level and       *)
(* backup_enabled, whose methods are called one after the other on a       *)
(* small tree, and then rollback_operations.                               *)
(***************************************************************************)

\* Bounds of the model: a run is up to MaxCalls calls of the mutating
\* methods (MaxCrowdedCalls in a crowded directory), then up to
\* MaxRollbacks calls of rollback_operations; or up to MaxPreviews batches
\* of up to MaxBatch intents, each previewed and then carried out
MaxCalls        == 2
MaxCrowdedCalls == 1
MaxRollbacks    == 1
MaxBatch        == 2
MaxPreviews     == 2

W(name) == <<"w", name>>

\* The tree the calls start from
PlainFs ==
    (Root :> Dir(TRUE)) @@ (<<"etc">> :> Dir(TRUE)) @@ (<<"etc", "passwd">> :> File(9, TRUE))
    @@ (<<"usr">> :> Dir(TRUE)) @@ (<<"usr", "bin">> :> Dir(TRUE))
    @@ (<<"usr", "bin", "env">> :> File(8, TRUE))
    @@ (<<"w">> :> Dir(TRUE))
    @@ (W("report.pdf") :> File(1, TRUE))
    @@ (W("report (1).pdf") :> File(2, TRUE))
    @@ (W("incoming") :> Dir(TRUE))
    @@ (<<"w", "incoming", "report.pdf">> :> File(3, TRUE))
    @@ (W("locked.txt") :> File(4, FALSE))

\* The same tree with every candidate "report (n).pdf" of the resolver taken
CrowdedFs ==
    [p \in {W("report (" \o ToString(n) \o ").pdf") : n \in 1..MaxCounter} |->
        File(2, TRUE)] @@ PlainFs

\* The crowded tree with the file the resolver names after the clock
StampedFs == (TimestampName(W("report.pdf"), 0) :> File(5, TRUE)) @@ CrowdedFs

InitialFs(s) ==
    IF s = "crowded" THEN CrowdedFs ELSE IF s = "stamped" THEN StampedFs ELSE PlainFs

\* The arguments the calls are made with
Moves == {<<<<"w", "incoming", "report.pdf">>, W("report.pdf")>>,
          <<W("report.pdf"), W("report.pdf")>>,
          <<W("report (1).pdf"), W("incoming")>>,
          <<W("incoming"), <<"w", "out", "new", "incoming">>>>,
          <<W("missing.txt"), W("report.pdf")>>,
          <<W("report.pdf"), <<"etc", "passwd">>>>}

Copies == {<<<<"w", "incoming", "report.pdf">>, W("report.pdf")>>,
           <<W("report.pdf"), <<"w", "out", "new", "report.pdf">>>>,
           <<W("incoming"), <<"w", "out", "copy">>>>,
           <<W("report.pdf"), <<"etc", "passwd">>>>}

Directories == {<<"w", "out", "new">>, W("incoming"), <<"w", "report.pdf", "sub">>,
                <<"etc", "ocd">>}

Deletable == {<<"w", "incoming", "report.pdf">>, W("incoming"), W("missing.txt"),
              W("locked.txt"), <<"etc", "passwd">>, <<"usr">>}

Renamable == {<<"w", "incoming", "report.pdf">>, W("missing.txt"), W("locked.txt")}

NewNames == {"final.pdf", "report.pdf", "../../etc/passwd", "..", ".", ""}

\* The step of a method at which the filesystem call it makes raises
Faults == {"none", "mkdir", "backup", "copy", "remove", "rmdir"}

\* A fault is taken where it changes what the call does
Takes(fault, out, calm) == fault = "none" \/ out # calm

\* The last call: its arguments, the state it found and the state it left
Call(method, source, destination, flag, exist_ok, name, fault, out) ==
    [method |-> method, source |-> source, destination |-> destination,
     flag |-> flag, exist_ok |-> exist_ok, name |-> name, fault |-> fault,
     at |-> now, fs_before |-> fs, history_before |-> operation_history,
     fs_after |-> out.fs, history_after |-> out.history,
     res |-> out.res, records |-> <<>>, results |-> <<>>]

\* Before the first call
NoCall(f) ==
    [method |-> "", source |-> NoPath, destination |-> NoPath,
     flag |-> FALSE, exist_ok |-> FALSE, name |-> "", fault |-> "none",
     at |-> 0, fs_before |-> f, history_before |-> <<>>,
     fs_after |-> f, history_after |-> <<>>,
     res |-> RollbackResult(TRUE, FileOperation("", NoPath, NoPath), ""),
     records |-> <<>>, results |-> <<>>]

\* Before the first preview
NoBatch(f) ==
    [number |-> 0, intents |-> <<>>, left |-> <<>>, preview |-> NoPreview(<<>>),
     fs_before |-> f, history_before |-> <<>>, fs_after |-> f, history_after |-> <<>>,
     calls |-> <<>>]

\* A call of a mutating method returns
Returns(entry) ==
    /\ fs' = entry.fs_after
    /\ operation_history' = entry.history_after
    /\ last' = entry
    /\ ncalls' = ncalls + 1
    /\ UNCHANGED <<now, safety_level, backup_enabled, scenario, nrollbacks, batch,
                   resolving>>

\* Another call of a mutating method can be made
Callable ==
    /\ ncalls < (IF scenario = "plain" THEN MaxCalls ELSE MaxCrowdedCalls)
    /\ nrollbacks = 0

\* A manager constructed over one of the trees
Constructed(trees) ==
    /\ scenario \in trees
    /\ fs = InitialFs(scenario)
    /\ now = 0
    /\ safety_level \in SafetyLevels
    /\ backup_enabled \in BOOLEAN
    /\ operation_history = <<>>
    /\ last = NoCall(fs)
    /\ ncalls = 0
    /\ nrollbacks = 0
    /\ batch = NoBatch(fs)
    /\ resolving = NotResolving

Init == Constructed({"plain"})

InitCrowded == Constructed({"crowded", "stamped"})

DoCreateDirectory ==
    /\ Callable
    /\ \E path \in Directories, parents \in BOOLEAN, exist_ok \in BOOLEAN :
       \E calm \in {CreateDirectory(fs, operation_history, path, parents, exist_ok, "none")} :
       \E fault \in {"none", "mkdir"} :
       \E out \in {CreateDirectory(fs, operation_history, path, parents, exist_ok, fault)} :
          /\ Takes(fault, out, calm)
          /\ Returns(Call("create_directory", NoPath, path, parents, exist_ok, "",
                          fault, out))

DoMoveFile ==
    /\ Callable
    /\ \E move \in Moves, resolve_conflicts \in BOOLEAN :
       \E calm \in {MoveFile(fs, operation_history, now, move[1], move[2],
                             resolve_conflicts, "none")} :
       \E fault \in Faults :
       \E out \in {MoveFile(fs, operation_history, now, move[1], move[2],
                            resolve_conflicts, fault)} :
          /\ Takes(fault, out, calm)
          /\ Returns(Call("move_file", move[1], move[2], resolve_conflicts, FALSE,
                          "", fault, out))

DoRenameFile ==
    /\ Callable
    /\ \E current_path \in Renamable, new_name \in NewNames :
       \E out \in {RenameFile(fs, operation_history, now, current_path, new_name, "none")} :
          Returns(Call("rename_file", current_path, NoPath, FALSE, FALSE, new_name,
                       "none", out))

DoCopyFile ==
    /\ Callable
    /\ \E copy \in Copies, preserve_metadata \in BOOLEAN :
       \E calm \in {CopyFile(fs, operation_history, now, copy[1], copy[2],
                             preserve_metadata, "none")} :
       \E fault \in {"none", "mkdir", "copy"} :
       \E out \in {CopyFile(fs, operation_history, now, copy[1], copy[2],
                            preserve_metadata, fault)} :
          /\ Takes(fault, out, calm)
          /\ Returns(Call("copy_file", copy[1], copy[2], preserve_metadata, FALSE, "",
                          fault, out))

DoDeleteFile ==
    /\ Callable
    /\ \E path \in Deletable, force \in BOOLEAN :
       \E calm \in {DeleteFile(fs, operation_history, now, path, force, "none")} :
       \E fault \in {"none", "backup", "remove", "rmdir"} :
       \E out \in {DeleteFile(fs, operation_history, now, path, force, fault)} :
          /\ Takes(fault, out, calm)
          /\ Returns(Call("delete_file", path, NoPath, force, FALSE, "", fault, out))

\* The subsequences of a sequence
Subsequences(h) ==
    {SelectSeq([i \in 1..Len(h) |-> <<i, h[i]>>], LAMBDA e : e[1] \in keep)
        : keep \in SUBSET (1..Len(h))}

\* The lists of records a caller hands to rollback_operations
Records(h) == {[i \in 1..Len(sub) |-> sub[i][2]] : sub \in Subsequences(h)}

\* The record the result of the last call carries
Returned ==
    IF last.method \in {"", "rollback_operations"} \/ ~last.res.success THEN {}
    ELSE {<<last.res.operation>>}

DoRollbackOperations ==
    /\ nrollbacks < MaxRollbacks
    /\ \E operations \in Records(operation_history) \cup Returned :
       \E out \in {RollbackOperations(fs, operation_history, now, operations)} :
          /\ fs' = out.fs
          /\ operation_history' = out.history
          /\ last' =
                [Call("rollback_operations", NoPath, NoPath, FALSE, FALSE, "", "none",
                      [fs |-> out.fs, history |-> out.history, res |-> NoCall(fs).res])
                 EXCEPT !.records = operations, !.results = out.results]
          /\ nrollbacks' = nrollbacks + 1
          /\ UNCHANGED <<now, safety_level, backup_enabled, scenario, ncalls, batch,
                         resolving>>

\* The operations a planner proposes
Proposals ==
    {FileOperation("copy", W("report.pdf"), <<"w", "out", "new", "report.pdf">>),
     FileOperation("copy", <<"w", "incoming", "report.pdf">>,
                   <<"w", "out", "new", "report.pdf">>),
     FileOperation("move", <<"w", "incoming", "report.pdf">>, W("report.pdf")),
     FileOperation("move", W("report.pdf"), <<"etc", "passwd">>),
     FileOperation("delete", W("locked.txt"), NoPath),
     FileOperation("delete", W("report (1).pdf"), NoPath),
     FileOperation("create_dir", NoPath, <<"w", "out", "new">>),
     FileOperation("rename", <<"w", "incoming", "report.pdf">>,
                   <<"w", "incoming", "final.pdf">>)}

\* The lists of intents handed to preview_operations
Intents == UNION {[1..n -> Proposals] : n \in 0..MaxBatch}

DoPreviewOperations ==
    /\ nrollbacks = 0
    /\ batch.left = <<>>
    /\ batch.number < MaxPreviews
    /\ \E operations \in Intents :
       \E out \in {PreviewOperations(safety_level, fs, operation_history, operations)} :
          /\ fs' = out.fs
          /\ operation_history' = out.history
          /\ batch' = [number |-> batch.number + 1, intents |-> operations,
                       left |-> operations, preview |-> out.preview,
                       fs_before |-> fs, history_before |-> operation_history,
                       fs_after |-> out.fs, history_after |-> out.history,
                       calls |-> <<>>]
          /\ UNCHANGED <<now, safety_level, backup_enabled, last, scenario, ncalls,
                         nrollbacks, resolving>>

\* The call that carries an intent out, with the defaults of its method
Executed(f, h, t, op) ==
    CASE op.operation_type = "create_dir" ->
            Call("create_directory", NoPath, op.destination_path, TRUE, TRUE, "", "none",
                 CreateDirectory(f, h, op.destination_path, TRUE, TRUE, "none"))
      [] op.operation_type = "move" ->
            Call("move_file", op.source_path, op.destination_path, TRUE, FALSE, "", "none",
                 MoveFile(f, h, t, op.source_path, op.destination_path, TRUE, "none"))
      [] op.operation_type = "copy" ->
            Call("copy_file", op.source_path, op.destination_path, TRUE, FALSE, "", "none",
                 CopyFile(f, h, t, op.source_path, op.destination_path, TRUE, "none"))
      [] op.operation_type = "rename" ->
            Call("rename_file", op.source_path, NoPath, FALSE, FALSE,
                 Name(op.destination_path), "none",
                 RenameFile(f, h, t, op.source_path, Name(op.destination_path), "none"))
      [] OTHER ->
            Call("delete_file", op.source_path, NoPath, FALSE, FALSE, "", "none",
                 DeleteFile(f, h, t, op.source_path, FALSE, "none"))

\* The next intent of the previewed batch is carried out
DoExecuteNext ==
    /\ nrollbacks = 0
    /\ batch.left # <<>>
    /\ \E entry \in {Executed(fs, operation_history, now, Head(batch.left))} :
          /\ fs' = entry.fs_after
          /\ operation_history' = entry.history_after
          /\ last' = entry
          /\ ncalls' = ncalls + 1
          /\ batch' = [batch EXCEPT !.left = Tail(@), !.calls = Append(@, entry)]
          /\ UNCHANGED <<now, safety_level, backup_enabled, scenario, nrollbacks,
                         resolving>>

Next ==
    \/ DoCreateDirectory
    \/ DoMoveFile
    \/ DoRenameFile
    \/ DoCopyFile
    \/ DoDeleteFile
    \/ DoRollbackOperations

Spec == Init /\ [][Next]_vars

InitAnyTree == Constructed({"plain", "crowded", "stamped"})

SpecAnyTree == InitAnyTree /\ [][Next]_vars

SpecCrowded == InitCrowded /\ [][Next]_vars

\* A planner's batches: each is previewed, then carried out in order
NextPreview ==
    \/ DoPreviewOperations
    \/ DoExecuteNext

SpecPreview == Init /\ [][NextPreview]_vars

\* A planner's session: batches previewed and carried out, then rolled back
NextSession ==
    \/ DoPreviewOperations
    \/ DoExecuteNext
    \/ DoRollbackOperations

SpecSession == Init /\ [][NextSession]_vars

(***************************************************************************)
(* Properties                                                              *)
(***************************************************************************)

\* What a path holds: the kinds and contents of the nodes at and below it,
\* by their names relative to it
ContentAt(f, p) ==
    [rel \in {SubSeq(q, Len(p) + 1, Len(q)) : q \in Under(f, p)} |->
        [kind |-> f[p \o rel].kind, content |-> f[p \o rel].content]]

Content(f, path) == ContentAt(f, Real(f, path))

\* The tree without the .ocd_backups directories and what they hold
Visible(f) ==
    [q \in {p \in DOMAIN f : \A i \in 1..Len(p) : p[i] # ".ocd_backups"} |->
        [kind |-> f[q].kind, content |-> f[q].content]]

\* The path holds the content, or is a directory that holds it under the name
HoldsContent(f, path, name, content) ==
    \/ Content(f, path) = content
    \/ IsDir(f, path) /\ Content(f, Append(path, name)) = content

\* C1: when backups are enabled and the source exists, move_file to a
\* destination other than the source either succeeds, the source is gone
\* and the recorded final destination holds the source's content, or fails
\* and the source still holds its content, whichever step of the move
\* raised.
MoveLosesNothing ==
    (/\ last.method = "move_file"
     /\ backup_enabled
     /\ Exists(last.fs_before, last.source)
     /\ Real(last.fs_before, last.source) # Real(last.fs_before, last.destination))
    => IF last.res.success
       THEN /\ ~Exists(last.fs_after, last.source)
            /\ HoldsContent(last.fs_after, last.res.operation.destination_path,
                            Name(last.source), Content(last.fs_before, last.source))
       ELSE /\ Exists(last.fs_after, last.source)
            /\ Content(last.fs_after, last.source) = Content(last.fs_before, last.source)

\* C2: under a profile with require_backup, a successful delete_file of an
\* existing path leaves a backup under <parent>/.ocd_backups that holds what
\* the path held, and the appended record names that backup.
DeleteBacksUp ==
    (/\ last.method = "delete_file"
     /\ SafetySettings(safety_level).require_backup
     /\ last.res.success
     /\ Exists(last.fs_before, last.source))
    => /\ last.history_after = Append(last.history_before, last.res.operation)
       /\ last.res.operation.rollback_info.backup_path # NoPath
       /\ Parent(last.res.operation.rollback_info.backup_path) = BackupDir(last.source)
       /\ Exists(last.fs_after, last.res.operation.rollback_info.backup_path)
       /\ Content(last.fs_after, last.res.operation.rollback_info.backup_path)
              = Content(last.fs_before, last.source)

\* C3: after calls that each succeeded and appended a record, rolling back
\* the full history leaves the tree, without its .ocd_backups directories,
\* as it was before the calls.
RollbackRestores ==
    (/\ last.method = "rollback_operations"
     /\ last.records = last.history_before
     /\ Len(last.history_before) = ncalls
     /\ ncalls > 0)
    => Visible(fs) = Visible(InitialFs(scenario))

\* C4: under the maximum level delete_file raises for a validation error,
\* for every path and both values of force, and changes neither the
\* filesystem nor the history.
MaximumBlocksDelete ==
    (last.method = "delete_file" /\ safety_level = "maximum")
    => /\ ~last.res.success
       /\ last.res.raised = "OCDError"
       /\ last.res.cause = "OCDValidationError"
       /\ last.fs_after = last.fs_before
       /\ last.history_after = last.history_before

\* A forced delete_file of an existing, writable file under the maximum level
MaximumBlocksDeleteSeen ==
    /\ last.method = "delete_file"
    /\ safety_level = "maximum"
    /\ last.flag
    /\ IsFile(last.fs_before, last.source)
    /\ IsPathSafe(safety_level, last.fs_before, last.source)
    /\ ~last.res.success

\* The destination the last call asked for
Desired ==
    IF last.method = "rename_file"
    THEN Join(Parent(last.source), Name(Parts(last.name)))
    ELSE last.destination

\* The last call is one that resolves a naming conflict, and it succeeded
Placing ==
    /\ \/ last.method = "move_file" /\ last.flag
       \/ last.method = "copy_file"
       \/ last.method = "rename_file"
    /\ last.res.success

\* The counter n is the smallest of 1..bound whose candidate is free
SmallestFree(f, path, n, bound) ==
    /\ n \in 1..bound
    /\ ~Exists(f, Candidate(path, n))
    /\ \A m \in 1..(n - 1) : Exists(f, Candidate(path, m))

\* The places whose node the last call may take away: the source of a move
Leaving ==
    IF last.method = "copy_file" THEN {}
    ELSE Under(last.fs_before, Real(last.fs_before, last.source))

\* The files that were there before the last call, all but S, are there
\* after it with their content
FilesKept(S) ==
    \A q \in DOMAIN last.fs_before \ S :
        last.fs_before[q].kind = "file"
        => q \in DOMAIN last.fs_after /\ last.fs_after[q] = last.fs_before[q]

\* C5 as stated: an occupied destination P resolves to the candidate of the
\* smallest n >= 1 that is free (the counters up to one past the loop bound
\* are looked at), a free P to P itself, the content is placed there and
\* every file that existed keeps its content.
SmallestCounterAlways ==
    Placing
    => /\ Content(last.fs_after, last.res.destination)
              = Content(last.fs_before, last.source)
       /\ FilesKept(Leaving)
       /\ IF Exists(last.fs_before, Desired)
          THEN \E n \in 1..(MaxCounter + 1) :
                  /\ SmallestFree(last.fs_before, Desired, n, MaxCounter + 1)
                  /\ last.res.destination = Candidate(Desired, n)
          ELSE last.res.destination = Desired

\* C5: an occupied destination P of a successful move_file with
\* resolve_conflicts, copy_file or rename_file resolves to the candidate
\* "{stem} ({n}){suffix}" of the smallest n of 1..1000 that is free, and to
\* "{stem}_{unix time}{suffix}" when none of them is; a free P resolves to
\* P itself; the content is placed at the resolved path and every file that
\* existed, but one at the resolved path, keeps its content.
SmallestCounter ==
    Placing
    => /\ Content(last.fs_after, last.res.destination)
              = Content(last.fs_before, last.source)
       /\ FilesKept(Leaving \cup {last.res.destination})
       /\ IF ~Exists(last.fs_before, Desired)
          THEN last.res.destination = Desired
          ELSE IF \E n \in 1..MaxCounter : ~Exists(last.fs_before, Candidate(Desired, n))
          THEN /\ \E n \in 1..MaxCounter :
                     /\ SmallestFree(last.fs_before, Desired, n, MaxCounter)
                     /\ last.res.destination = Candidate(Desired, n)
               /\ FilesKept(Leaving)
          ELSE last.res.destination =
                   Append(Parent(Desired),
                          Stem(Name(Desired)) \o "_" \o ToString(UnixTime(last.at))
                              \o Suffix(Name(Desired)))

\* report.pdf and report (1).pdf are there and a copy lands at report (2).pdf
SmallestCounterSeen ==
    /\ last.method = "copy_file"
    /\ last.res.success
    /\ scenario = "plain"
    /\ last.destination = W("report.pdf")
    /\ Exists(last.fs_before, W("report.pdf"))
    /\ Exists(last.fs_before, W("report (1).pdf"))
    /\ last.res.destination = W("report (2).pdf")
    /\ last.fs_after[W("report (2).pdf")] = last.fs_before[Real(last.fs_before, last.source)]

\* C6: move_file with resolve_conflicts and copy_file, when no filesystem
\* call of theirs raises, change or remove no path that existed before the
\* call, but the source of the move, and the final destination is a path
\* that did not exist.
NeverOverwrites ==
    (/\ last.fault = "none"
     /\ \/ last.method = "move_file" /\ last.flag
        \/ last.method = "copy_file")
    => /\ \A q \in DOMAIN last.fs_before \ Leaving :
              q \in DOMAIN last.fs_after /\ last.fs_after[q] = last.fs_before[q]
       /\ last.res.success => ~Exists(last.fs_before, last.res.destination)

\* C7: rename_file is rejected or leaves the file at a path whose parent is
\* current_path.parent, and creates, changes or removes no path outside
\* that directory.
RenameStaysInParent ==
    last.method = "rename_file"
    => /\ last.res.success
          => /\ Exists(last.fs_after, last.res.destination)
             /\ Parent(Real(last.fs_after, last.res.destination))
                    = Real(last.fs_before, Parent(last.source))
       /\ \A q \in DOMAIN last.fs_before \cup DOMAIN last.fs_after :
              ~IsPrefix(Real(last.fs_before, Parent(last.source)), q)
              => /\ q \in DOMAIN last.fs_before
                 /\ q \in DOMAIN last.fs_after
                 /\ last.fs_after[q] = last.fs_before[q]

\* A create_directory(p, parents = True, exist_ok = True) call
CreatesDirectory(call) ==
    call.method = "create_directory" /\ call.flag /\ call.exist_ok

\* The last call is create_directory(p, exist_ok = True) on a p that passes
\* the safety check and is absent, and the next call is the same
CreatedTwice ==
    /\ CreatesDirectory(last)
    /\ IsPathSafe(safety_level, last.fs_before, last.destination)
    /\ ~Exists(last.fs_before, last.destination)
    /\ CreatesDirectory(last')
    /\ last'.destination = last.destination

\* What the second of two create_directory calls leaves
SecondCreateIsNoOp ==
    /\ last'.res.success
    /\ fs' = fs
    /\ IsDir(fs', last.destination)
    /\ operation_history' = operation_history
    /\ operation_history' = Append(last.history_before, last.res.operation)
    /\ last.res.operation.operation_type = "create_dir"
    /\ last.res.operation.destination_path = last.destination

\* C8 as stated: two consecutive create_directory(p, exist_ok = True) calls
\* on a safe, absent p both succeed, and the second changes nothing.
CreateTwiceAlways ==
    [][CreatedTwice => last.res.success /\ SecondCreateIsNoOp]_vars

\* C8: when create_directory(p, exist_ok = True) on a safe, absent p
\* succeeds, the same call made next succeeds, changes nothing and appends
\* no record: p is a directory and the two calls added one create_dir
\* record for p to the history.
CreateTwice ==
    [][CreatedTwice /\ last.res.success => SecondCreateIsNoOp]_vars

\* The second of two create_directory calls found the directory of the first
CreateTwiceSeen ==
    /\ CreatesDirectory(last)
    /\ last.res.success
    /\ last.res.message = "Directory already exists"
    /\ Len(last.history_before) = 1
    /\ last.history_before[1].operation_type = "create_dir"
    /\ last.history_before[1].destination_path = last.destination
    /\ ncalls = 2

\* C9: under a level that permits deletion, delete_file on a safe path that
\* does not exist returns success, makes no backup and appends no record;
\* so does a delete_file of the path the last record deleted.
DeleteMissing ==
    (/\ last.method = "delete_file"
     /\ safety_level # "maximum"
     /\ ~Exists(last.fs_before, last.source)
     /\ \/ IsPathSafe(safety_level, last.fs_before, last.source)
        \/ /\ last.history_before # <<>>
           /\ last.history_before[Len(last.history_before)].operation_type = "delete"
           /\ last.history_before[Len(last.history_before)].source_path = last.source)
    => /\ last.res.success
       /\ last.res.raised = ""
       /\ last.fs_after = last.fs_before
       /\ last.history_after = last.history_before

\* A delete_file of the path that the call before it deleted
DeleteMissingSeen ==
    /\ last.method = "delete_file"
    /\ last.res.success
    /\ last.res.message = "File does not exist"
    /\ Len(last.history_before) = 1
    /\ last.history_before[1].operation_type = "delete"
    /\ last.history_before[1].source_path = last.source
    /\ ncalls = 2

\* Whether rolling back a record raises, in a given state
Raises(f, h, t, operation) ==
    RollbackSingleOperation(f, h, t, operation).res.raised # ""

\* The state the first record processed leaves
AfterFirst ==
    RollbackSingleOperation(last.fs_before, last.history_before, last.at,
                            last.records[Len(last.records)])

\* C10: rollback_operations returns one result per record, in the reverse
\* of the order given; the result of a record whose rollback raises has
\* success = false, and the records after it are processed all the same.
RollbackReports ==
    last.method = "rollback_operations"
    => /\ Len(last.results) = Len(last.records)
       /\ \A i \in 1..Len(last.records) :
              last.results[i].operation = last.records[Len(last.records) + 1 - i]
       /\ Len(last.records) >= 1
          => last.results[1].success
                 = ~Raises(last.fs_before, last.history_before, last.at,
                           last.records[Len(last.records)])
       /\ Len(last.records) >= 2
          => last.results[2].success
                 = ~Raises(AfterFirst.fs, AfterFirst.history, last.at,
                           last.records[Len(last.records) - 1])

\* A rollback of two records: the later one's rollback raised, and the
\* earlier one was rolled back after it
RollbackReportsSeen ==
    /\ last.method = "rollback_operations"
    /\ Len(last.records) = 2
    /\ last.records[1] # last.records[2]
    /\ ~last.results[1].success
    /\ last.results[1].operation = last.records[2]
    /\ last.results[2].success
    /\ last.results[2].operation = last.records[1]
    /\ last.fs_after # last.fs_before

\* The record rollback_operations processes at position i of its loop
Processed(i) == last.records[Len(last.records) + 1 - i]

\* A rollback_operations call of one record of the given type, executed
RollsBackOne(type) ==
    /\ last.method = "rollback_operations"
    /\ Len(last.records) = 1
    /\ last.records[1].operation_type = type
    /\ last.records[1].executed

\* An executed delete record whose backup is absent or gone
NoBackupLeft(f, operation) ==
    /\ operation.operation_type = "delete"
    /\ operation.executed
    /\ \/ operation.rollback_info.backup_path = NoPath
       \/ ~Exists(f, operation.rollback_info.backup_path)

\* C11: when the first record rollback_operations processes is an executed
\* delete record without a backup, or whose backup no longer exists, its
\* result has success = false.
UnrollableDeleteReported ==
    (/\ last.method = "rollback_operations"
     /\ Len(last.records) >= 1
     /\ NoBackupLeft(last.fs_before, Processed(1)))
    => ~last.results[1].success

\* C12: rolling back the record of a delete_file that made a backup, the
\* only call made, puts back at the deleted path what it held before the
\* deletion: the file with its content, the directory with all it held.
RollbackRestoresDeleted ==
    (/\ RollsBackOne("delete")
     /\ ncalls = 1
     /\ last.history_before = last.records
     /\ last.records[1].rollback_info.backup_path # NoPath)
    => /\ Exists(last.fs_after, last.records[1].source_path)
       /\ Content(last.fs_after, last.records[1].source_path)
              = Content(InitialFs(scenario), last.records[1].source_path)

\* C13: under every safety level, rolling back an executed copy record whose
\* copy still exists removes the copy, leaves the source as it was and
\* reports success.
RollbackRemovesCopy ==
    (/\ RollsBackOne("copy")
     /\ Exists(last.fs_before, last.records[1].destination_path))
    => /\ ~Exists(last.fs_after, last.records[1].destination_path)
       /\ Exists(last.fs_after, last.records[1].source_path)
              = Exists(last.fs_before, last.records[1].source_path)
       /\ Content(last.fs_after, last.records[1].source_path)
              = Content(last.fs_before, last.records[1].source_path)
       /\ last.results[1].success

\* The move record is the one the rename made, to the new path as asked
MovedBy(move, rename) ==
    /\ move.operation_type = "move"
    /\ move.source_path = rename.source_path
    /\ move.destination_path = rename.destination_path
    /\ Parent(rename.destination_path) = Parent(rename.source_path)

\* C14: after a successful rename_file that met no naming conflict, rolling
\* back the record its result carries moves the file back: it exists again
\* at current_path and no longer at the path it was renamed to.
RollbackUndoesRename ==
    (/\ RollsBackOne("rename")
     /\ last.history_before # <<>>
     /\ MovedBy(last.history_before[Len(last.history_before)], last.records[1])
     /\ ~Exists(last.fs_before, last.records[1].source_path)
     /\ Exists(last.fs_before, last.records[1].destination_path))
    => /\ Exists(last.fs_after, last.records[1].source_path)
       /\ ~Exists(last.fs_after, last.records[1].destination_path)

\* C15: rolling back an executed move record whose destination no longer
\* exists reports success = false for it and changes nothing on the
\* filesystem.
VanishedMoveFailsLoudly ==
    (/\ RollsBackOne("move")
     /\ last.records[1].destination_path # NoPath
     /\ last.records[1].destination_path # last.records[1].source_path
     /\ ~Exists(last.fs_before, last.records[1].destination_path))
    => /\ ~last.results[1].success
       /\ last.fs_after = last.fs_before

\* The directory at a path holds nothing
IsEmptyDir(f, path) == IsDir(f, path) /\ Under(f, Real(f, path)) = {Real(f, path)}

\* C16: rolling back an executed create_dir record whose directory exists
\* removes the directory when it is empty; when it is not, the directory
\* and what it holds stay, the result is a success and carries a warning
\* that the removal was skipped.
CreateDirRollbackWarns ==
    (/\ RollsBackOne("create_dir")
     /\ IsDir(last.fs_before, last.records[1].destination_path))
    => IF IsEmptyDir(last.fs_before, last.records[1].destination_path)
       THEN ~Exists(last.fs_after, last.records[1].destination_path)
       ELSE /\ last.fs_after = last.fs_before
            /\ last.results[1].success
            /\ last.results[1].warnings # <<>>

\* The methods that change the filesystem
Mutating == {"create_directory", "move_file", "copy_file", "rename_file", "delete_file"}

\* The operation a call handed to validate_operation
Validated(call) ==
    CASE call.method = "create_directory" ->
            FileOperation("create_dir", NoPath, call.destination)
      [] call.method = "move_file" -> FileOperation("move", call.source, call.destination)
      [] call.method = "copy_file" -> FileOperation("copy", call.source, call.destination)
      [] call.method = "rename_file" ->
            FileOperation("move", call.source,
                          Join(Parent(call.source), Name(Parts(call.name))))
      [] OTHER -> FileOperation("delete", call.source, NoPath)

\* The call is one that validate_operation rejected
RejectedCall(call) ==
    /\ call.method \in Mutating
    /\ ~ValidateOperation(safety_level, call.fs_before, Validated(call))

\* The last call is one that validate_operation rejected
Rejected == RejectedCall(last)

\* C17: a call of create_directory, move_file, copy_file, rename_file or
\* delete_file that validation rejects raises, and leaves the filesystem,
\* backup directories included, and the operation history as they were.
RejectionHasNoEffect ==
    Rejected
    => /\ ~last.res.success
       /\ last.res.raised = "OCDError"
       /\ last.fs_after = last.fs_before
       /\ last.history_after = last.history_before

\* A move_file of an existing source onto an existing file below a forbidden
\* prefix is rejected, with backups enabled, after a call that left a record
RejectionHasNoEffectSeen ==
    /\ Rejected
    /\ last.method = "move_file"
    /\ backup_enabled
    /\ Exists(last.fs_before, last.source)
    /\ Exists(last.fs_before, last.destination)
    /\ ~IsPathSafe(safety_level, last.fs_before, last.destination)
    /\ last.history_before # <<>>
    /\ last.res.cause = "OCDValidationError"

\* C20: move_file(source, destination, resolve_conflicts = False) on a
\* destination that is occupied by something other than the source fails and
\* leaves the source, the occupant and the operation history as they were.
OccupiedMoveFails ==
    (/\ last.method = "move_file"
     /\ ~last.flag
     /\ last.fault = "none"
     /\ Exists(last.fs_before, last.source)
     /\ Exists(last.fs_before, last.destination)
     /\ Real(last.fs_before, last.source) # Real(last.fs_before, last.destination))
    => /\ ~last.res.success
       /\ last.fs_after = last.fs_before
       /\ last.history_after = last.history_before

\* The sum of the counts of a dict of counts
RECURSIVE Total(_)
Total(by_type) ==
    IF DOMAIN by_type = {} THEN 0
    ELSE LET type == CHOOSE x \in DOMAIN by_type : TRUE
         IN  by_type[type] + Total([x \in DOMAIN by_type \ {type} |-> by_type[x]])

\* C18: preview_operations leaves the filesystem, backup directories
\* included, and the operation history as they were, and reports
\* total_operations equal to the number of intents, with per-type counts
\* that sum to it.
PreviewMutatesNothing ==
    /\ batch.fs_after = batch.fs_before
    /\ batch.history_after = batch.history_before
    /\ batch.preview.total_operations = Len(batch.intents)
    /\ Total(batch.preview.operations_by_type) = Len(batch.intents)
    /\ batch.calls = <<>> => fs = batch.fs_before /\ operation_history = batch.history_before

\* A preview of two intents of different types, with a conflict and a safety
\* warning to report, on a tree that an earlier batch changed and that holds
\* a backup directory
PreviewMutatesNothingSeen ==
    /\ batch.number = 2
    /\ batch.calls = <<>>
    /\ Len(batch.intents) = 2
    /\ batch.intents[1].operation_type # batch.intents[2].operation_type
    /\ batch.preview.potential_conflicts # <<>>
    /\ batch.preview.safety_warnings # <<>>
    /\ batch.history_before # <<>>
    /\ batch.fs_before # InitialFs(scenario)
    /\ \E p \in DOMAIN batch.fs_before : Name(p) = ".ocd_backups"

\* The intent a call of the batch carried out
IntentOf(i) == batch.intents[i]

\* Every path that existed before the call, but the source of a move or a
\* rename and the target of a delete, is there after it, unchanged
Overwrote(call) ==
    \E q \in DOMAIN call.fs_before :
        /\ ~(/\ call.method \in {"move_file", "rename_file", "delete_file"}
             /\ IsPrefix(Real(call.fs_before, call.source), q))
        /\ call.fs_before[q].kind = "file"
        /\ \/ q \notin DOMAIN call.fs_after
           \/ call.fs_after[q] # call.fs_before[q]

\* C19: when the preview of a batch reports no potential conflict and no
\* safety warning, carrying the batch out in order from the state previewed
\* meets no validation rejection and resolves no naming conflict: each
\* call that succeeds ends at the destination its intent asked for and
\* overwrites nothing.
PreviewAgreesWithExecution ==
    (/\ batch.preview.potential_conflicts = <<>>
     /\ batch.preview.safety_warnings = <<>>)
    => \A i \in 1..Len(batch.calls) :
          /\ ~RejectedCall(batch.calls[i])
          /\ batch.calls[i].res.success
             => /\ batch.calls[i].res.conflicts_resolved = <<>>
                /\ batch.calls[i].res.destination = IntentOf(i).destination_path
                /\ ~Overwrote(batch.calls[i])

\* The values of the members of SafetyLevel
SafetyLevelValues == {SafetyLevelMembers[name] : name \in DOMAIN SafetyLevelMembers}

\* C21: the level a manager is constructed with, each of minimal, balanced
\* and maximum, is a defined value of SafetyLevel; the construction does
\* not raise and leaves that level active and the operation history empty.
ProfilesConstructible ==
    /\ safety_level \in SafetyLevelValues
    /\ Construction(safety_level).raised = ""
    /\ Construction(safety_level).safety_level = safety_level
    /\ Construction(safety_level).operation_history = <<>>
    /\ (ncalls = 0 /\ nrollbacks = 0 /\ batch.number = 0) => operation_history = <<>>

\* The successes that are idempotent no-ops
NoOps == {"Directory already exists", "File does not exist"}

\* The record a successful call appends: the one of its result, and for
\* rename_file the record of the move_file it made
Committed(call) ==
    IF call.method = "rename_file"
    THEN [call.res.operation EXCEPT
            !.operation_type = "move",
            !.destination_path = call.res.destination,
            !.rollback_info = call.history_after[Len(call.history_after)].rollback_info]
    ELSE call.res.operation

\* C22: every record of the history has executed = true; a call that
\* raises, or that succeeds as a no-op (the directory already exists, the
\* delete target is missing), appends no record, and a call whose mutation
\* succeeded appends its record, and only that.
HistoryCommitted ==
    /\ \A i \in 1..Len(operation_history) : operation_history[i].executed
    /\ last.method \in Mutating
       => IF last.res.success /\ last.res.message \notin NoOps
          THEN /\ last.history_after = Append(last.history_before, Committed(last))
               /\ Committed(last).executed
          ELSE last.history_after = last.history_before

\* A move_file whose shutil.move raised after it had changed the filesystem,
\* with a record in the history from an earlier call
HistoryCommittedSeen ==
    /\ last.method = "move_file"
    /\ ~last.res.success
    /\ last.res.cause = "OSError"
    /\ last.fs_after # last.fs_before
    /\ last.history_before # <<>>
    /\ operation_history = last.history_before

\* The records a step appends to the history
Appended == SubSeq(operation_history', Len(operation_history) + 1, Len(operation_history'))

\* C23: every step of the manager, rollback_operations and
\* preview_operations included, leaves the records the history holds in
\* place and unchanged, so that it never gets shorter; the records a
\* rollback_operations call adds are the executed move and delete records
\* of the move_file and delete_file calls it makes.
HistoryAppendOnly ==
    [][/\ IsPrefix(operation_history, operation_history')
       /\ last'.method = "rollback_operations" /\ last' # last
          => \A i \in 1..Len(Appended) :
                /\ Appended[i].operation_type \in {"move", "delete"}
                /\ Appended[i].executed]_vars

\* A rollback_operations call, after a batch was previewed and carried out,
\* that added records to a history that held some
HistoryAppendOnlySeen ==
    /\ last.method = "rollback_operations"
    /\ batch.number >= 1
    /\ batch.calls # <<>>
    /\ last.history_before # <<>>
    /\ Len(operation_history) > Len(last.history_before)
    /\ IsPrefix(last.history_before, operation_history)

\* The backups the records of a history name
BackupsOf(h) ==
    {h[i].rollback_info.backup_path : i \in 1..Len(h)} \ {NoPath}

\* C24: every backup that a record of the history names exists at that
\* path, and a call of the manager or a rollback leaves the backups that
\* existed before it in place with the content they had.
BackupsPersist ==
    /\ \A backup_path \in BackupsOf(operation_history) : Exists(fs, backup_path)
    /\ \A backup_path \in BackupsOf(last.history_before) :
          Exists(last.fs_before, backup_path)
          => /\ Exists(last.fs_after, backup_path)
             /\ Content(last.fs_after, backup_path) = Content(last.fs_before, backup_path)

\* The methods the claim about failures names
Atomic == {"create_directory", "move_file", "copy_file", "delete_file"}

\* C25: a create_directory, move_file, copy_file or delete_file call that
\* fails after validation, for a missing source or a filesystem call that
\* raises, leaves the filesystem as it was before the call and appends no
\* record.
FailureHasNoEffect ==
    (/\ last.method \in Atomic
     /\ ~RejectedCall(last)
     /\ ~last.res.success)
    => /\ last.fs_after = last.fs_before
       /\ last.history_after = last.history_before

\* The place is at or below a forbidden prefix of the level
Forbidden(level, q) ==
    \E forbidden \in SafetySettings(level).forbidden_paths :
        StartsWith(PathStr(q), forbidden)

\* C26: no call of the manager and no rollback creates, changes, moves or
\* removes a file or directory whose absolute path starts with a forbidden
\* prefix of the active level.
ForbiddenUntouched ==
    \A q \in DOMAIN last.fs_before \cup DOMAIN last.fs_after :
        Forbidden(safety_level, q)
        => /\ q \in DOMAIN last.fs_before
           /\ q \in DOMAIN last.fs_after
           /\ last.fs_after[q] = last.fs_before[q]

\* Path.stat().st_size of a file with the given content, in the unit of
\* max_file_size (MiB): "report (1).pdf" of the plain tree is a 2 GiB file
StSize(content) == IF content = 2 THEN 2048 ELSE 1

\* The path names an existing file larger than max_file_size of the level
Oversized(level, f, path) ==
    /\ path # NoPath
    /\ IsFile(f, path)
    /\ StSize(f[Real(f, path)].content) > SafetySettings(level).max_file_size

\* C27: a call whose source or destination is an existing file larger than
\* max_file_size of the active level is refused by _is_path_safe, and
\* changes neither the filesystem, backups included, nor the history.
SizeLimitEnforced ==
    \A path \in {last.source, last.destination} :
        (/\ last.method \in Mutating
         /\ Oversized(safety_level, last.fs_before, path))
        => /\ ~IsPathSafe(safety_level, last.fs_before, path)
           /\ last.fs_after = last.fs_before
           /\ last.history_after = last.history_before

\* The paths _resolve_naming_conflict is called with
Conflicting == {W("report.pdf"), <<"w", "incoming", "report.pdf">>, W("incoming")}

\* A caller enters _resolve_naming_conflict
DoResolveNamingConflict ==
    \E path \in Conflicting :
        /\ resolving = NotResolving
        /\ resolving' = Started(path)
        /\ UNCHANGED <<fs, now, safety_level, backup_enabled, operation_history, last,
                       scenario, ncalls, nrollbacks, batch>>

\* The loop of _resolve_naming_conflict makes one pass
DoProbe ==
    /\ resolving # NotResolving
    /\ ~resolving.returned
    /\ resolving' = Probed(resolving, fs, now)
    /\ UNCHANGED <<fs, now, safety_level, backup_enabled, operation_history, last,
                   scenario, ncalls, nrollbacks, batch>>

NextResolve ==
    \/ DoResolveNamingConflict
    \/ DoProbe

\* The resolver does not read the safety level or backup_enabled
InitResolve == InitAnyTree /\ safety_level = "balanced" /\ backup_enabled

\* The resolver on the plain, the crowded and the stamped tree; the loop is
\* not suspended for ever (it has no await)
SpecResolve == InitResolve /\ [][NextResolve]_vars /\ WF_vars(DoProbe)

\* What the resolver has done so far is what the claim allows
ResolvedInOrder ==
    resolving # NotResolving
    => /\ resolving.probes \in 0..MaxCounter
       /\ ~resolving.returned
          => /\ resolving.counter = resolving.probes + 1
             /\ resolving.probes > 0
                => /\ resolving.new_path = Candidate(resolving.path, resolving.probes)
                   /\ Exists(fs, resolving.new_path)
       /\ resolving.returned
          => /\ Parent(resolving.new_path) = Parent(resolving.path)
             /\ resolving.new_path = ResolveNamingConflict(fs, resolving.path, now)
             /\ IF \E n \in 1..MaxCounter : ~Exists(fs, Candidate(resolving.path, n))
                THEN /\ SmallestFree(fs, resolving.path, resolving.probes, MaxCounter)
                     /\ resolving.new_path = Candidate(resolving.path, resolving.probes)
                ELSE /\ resolving.probes = MaxCounter
                     /\ resolving.new_path = TimestampName(resolving.path, now)

\* C28: on every tree _resolve_naming_conflict returns; it probes the
\* candidates "stem (n)suffix" for n = 1, 2, ... in increasing order, at
\* most MaxCounter of them, returns the first that does not exist, and when
\* all MaxCounter exist returns "stem_<unix time>suffix" in the same parent
\* without probing it.
ResolverTerminates ==
    /\ []ResolvedInOrder
    /\ (resolving # NotResolving) ~> resolving.returned

\* The resolver has probed all MaxCounter candidates and fallen back to the
\* timestamp name, which on the stamped tree is occupied
ResolverTerminatesSeen ==
    /\ resolving.returned
    /\ resolving.probes = MaxCounter
    /\ resolving.new_path = TimestampName(W("report.pdf"), now)
    /\ Exists(fs, resolving.new_path)

\* The path the last call takes a backup of: what delete_file deletes, or
\* what move_file finds at the destination it was told not to resolve
BackupTarget == IF last.method = "delete_file" THEN last.source ELSE last.destination

\* The last call took a backup, in the same second and the same parent, of
\* a path of which an earlier call has made a backup with the same name
CollidingBackup ==
    /\ last.method \in {"delete_file", "move_file"}
    /\ last.method = "move_file"
       => /\ ~last.flag
          /\ Exists(last.fs_before, last.source)
          /\ last.source # last.destination
    /\ backup_enabled
    /\ last.fault = "none"
    /\ ~RejectedCall(last)
    /\ Exists(last.fs_before, BackupTarget)
    /\ Exists(last.fs_before, BackupPath(BackupTarget, last.at))
    /\ BackupPath(BackupTarget, last.at) \in BackupsOf(last.history_before)

\* C29: a delete_file or move_file whose backup falls on the path of a
\* backup made in the same second succeeds, and the backup path then holds
\* what the later call backed up, for a file and for a directory.
SameSecondLastWins ==
    CollidingBackup
    => /\ last.res.success
       /\ Content(last.fs_after, BackupPath(BackupTarget, last.at))
              = Content(last.fs_before, BackupTarget)

\* timedelta.seconds: the seconds of a duration within its last day
Seconds(delta) == delta % 86400

\* The records of the history of a type
OfType(h, type) == Cardinality({i \in 1..Len(h) : h[i].operation_type = type})

\* get_operation_stats when the clock reads t; success_rate is the pair of
\* the numbers it divides
GetOperationStats(h, t) ==
    IF Len(h) = 0 THEN [total_operations |-> 0]
    ELSE [total_operations |-> Len(h),
          successful_operations |-> Cardinality({i \in 1..Len(h) : h[i].executed}),
          success_rate |-> <<Cardinality({i \in 1..Len(h) : h[i].executed}), Len(h)>>,
          operations_by_type |->
              [type \in {h[i].operation_type : i \in 1..Len(h)} |-> OfType(h, type)],
          recent_operations |->
              Cardinality({i \in 1..Len(h) : Seconds(t - h[i].timestamp) < 3600})]

\* The times the clock is read at, in seconds: the start, half an hour,
\* two hours, and a day and half an hour later
Times == {0, 1800, 7200, 88200}

\* Time passes
DoTick ==
    \E t \in Times :
        /\ t > now
        /\ now' = t
        /\ UNCHANGED <<fs, safety_level, backup_enabled, operation_history, last,
                       scenario, ncalls, nrollbacks, batch, resolving>>

\* get_operation_stats()
DoGetOperationStats ==
    /\ last.method # "get_operation_stats"
    /\ last' = Call("get_operation_stats", NoPath, NoPath, FALSE, FALSE, "", "none",
                    Outcome(fs, operation_history,
                            GetOperationStats(operation_history, now)))
    /\ UNCHANGED <<fs, now, safety_level, backup_enabled, operation_history, scenario,
                   ncalls, nrollbacks, batch, resolving>>

NextStats ==
    \/ DoCreateDirectory
    \/ DoDeleteFile
    \/ DoTick
    \/ DoGetOperationStats

\* Calls that append records, with time passing between them, and the
\* statistics asked for at any moment
SpecStats == Init /\ [][NextStats]_vars

\* C30: for a non-empty history get_operation_stats reports as
\* recent_operations the number of records made within the 3600 seconds
\* before the call; no older record, and none older than 24 hours, counts.
RecentHourCounted ==
    (/\ last.method = "get_operation_stats"
     /\ last.history_before # <<>>)
    => last.res.recent_operations
          = Cardinality({i \in 1..Len(last.history_before) :
                            last.at - last.history_before[i].timestamp < 3600})

=============================================================================
